---- MODULE Spec2Model ----
(***************************************************************************)
(* Model of the LiDAR pipeline of src/server.py: the compact packet        *)
(* decoder (parse_compact), the frame assembler                            *)
(* (FrameProtocol.datagram_received), the spatial filter and clusterer     *)
(* (process_frame), the tracker (assign_stable_ids, get_next_cluster_id),   *)
(* the broadcast to the viewers' send tasks and websocket_handler.         *)
(*                                                                         *)
(* Spec is the pipeline with no viewer connected, SpecViewers the pipeline *)
(* with viewers, SpecDecoder one call of parse_compact step by step.       *)
(*                                                                         *)
(* Lengths are integers in millimetres.  Raw echo values are multiples of  *)
(* the module's scaling factor, so that every centroid (a mean of at most  *)
(* five coordinates) is an integer and the division of line 195 is exact.   *)
(* All modules of the model have one layer with phi = 0 and                *)
(* theta_start = theta_stop = 0 (cos = 1, sin = 0), one echo per beam and  *)
(* 16-bit distance samples (data_echos = 1, data_beams = 0).               *)
(***************************************************************************)
EXTENDS Integers, Sequences, FiniteSets, TLC

\* ---------------------------------------------------------------- bounds
\* largest frame_number a module of the model carries
MaxFrame == 2
\* largest number of modules chained in one datagram
MaxModules == 2
\* largest number of points the accumulator holds (datagrams that would
\* exceed it are not sent)
MaxAccum == 4
\* largest number of send tasks waiting in the event loop (frames that would
\* exceed it do not complete)
MaxTasks == 2

\* ------------------------------------------------- configuration values
\* config.json is read at start-up (src/server.py:21-36); these are the
\* values of the model's configuration.
DBSCAN_EPS == 60
DBSCAN_MIN_SAMPLES == 2
MAX_MATCH_DIST == 130
MAX_CLUSTER_ID == 2
CLUSTER_RADIUS == 600
\* frames per second, 1 / FRAME_TIME_GAP_SEC (FRAME_TIME_GAP_SEC = 0.1)
FRAME_RATE == 10
\* movement threshold of line 100 (0.1 m) in millimetres
MOVED_DIST == 100
\* proximity alert threshold of line 112 (0.5 m) in millimetres
ALERT_DIST == 500

\* Python's None, for last_frame and for the result of parse_compact
None == -1

\* -------------------------------------------------------------- decoder
START_MARKER == 33686018      \* 0x02020202
COMMAND_ID == 1
HEADER_SIZE == 32

\* Offset of the first distance sample inside a module with num_layers
\* layers: 32-byte header, 16 bytes of timestamps per layer, three float
\* arrays, scaling and next_module (8), and 4 flag bytes.
data_offset(num_layers) == 32 + num_layers * 16 + 3 * (4 * num_layers) + 8 + 1 + 3

\* echo_size for data_echos = 1, and the bytes of one beam with one echo
echo_size == 2
beam_size == echo_size * 1 + 0 + 0

\* Size in bytes of a one-layer module with num_beams beams.
ModuleBytes(num_beams) == data_offset(1) + num_beams * beam_size

\* The points of one module: one per beam, d = raw * scaling, on the
\* x axis.  fn records the frame_number of the module the point was decoded
\* from (line 143); the code does not keep it.
module_points(m) ==
    [b \in 1..m.num_beams |->
        LET d == m.raw[b] * m.scaling
        IN  [x |-> d * 1 * 1, y |-> d * 1 * 0, z |-> d * 0, fn |-> m.frame_number]]

\* Beams whose sample lies inside the module (line 162 skips the others).
beam_in_module(m, b) == data_offset(1) + (b - 1) * beam_size + echo_size <= m.size

\* A module shorter than its header fields: struct.unpack_from (lines 144-149)
\* or the index of line 151 reads past the end of m.  The last bytes read
\* are the flag bytes m[mo] and m[mo+1], three bytes before the samples.
module_too_short(m) == m.size < data_offset(1) - 3 + 2

\* the None that parse_compact returns (lines 136, 175), as a result without
\* a frame number
NoParse == [frame_number |-> None, pts |-> <<>>, raised |-> FALSE]

\* parse_compact left by an exception (struct.error, IndexError)
ParseRaised == [frame_number |-> None, pts |-> <<>>, raised |-> TRUE]

\* the condition of the while loop of line 141; mods[k] stands for the bytes
\* the k-th iteration finds at offset
loop_continues(buffer, k, offset, module_size) ==
    module_size > 0 /\ offset + module_size <= buffer.len /\ k <= Len(buffer.mods)

\* next_offset when line 173 does not advance the offset
next_offset_not_advanced(offset, module_size) == offset

\* line 173: offset += module_size
next_offset(offset, module_size) == offset + module_size

RECURSIVE module_loop(_, _, _, _, _, _)
module_loop(buffer, k, offset, module_size, all_pts, frame_number) ==
    IF loop_continues(buffer, k, offset, module_size)
    THEN LET m == buffer.mods[k]
             pts == module_points(m)
             kept == SelectSeq([b \in 1..m.num_beams |-> b],
                               LAMBDA b : beam_in_module(m, b))
         IN  IF module_too_short(m) THEN ParseRaised
             ELSE module_loop(buffer, k + 1, next_offset(offset, module_size),
                              m.next_module,
                              all_pts \o [i \in 1..Len(kept) |-> pts[kept[i]]],
                              m.frame_number)
    ELSE IF frame_number # None
         THEN [frame_number |-> frame_number, pts |-> all_pts, raised |-> FALSE]
         ELSE NoParse

\* parse_compact without the start marker test of line 135
parse_compact_marker_unchecked(buffer) ==
    IF buffer.len < HEADER_SIZE \/ buffer.cmd # COMMAND_ID
    THEN NoParse
    ELSE module_loop(buffer, 1, HEADER_SIZE, buffer.first_size, <<>>, None)

parse_compact(buffer) ==
    IF buffer.len < HEADER_SIZE \/ buffer.marker # START_MARKER \/ buffer.cmd # COMMAND_ID
    THEN NoParse
    ELSE module_loop(buffer, 1, HEADER_SIZE, buffer.first_size, <<>>, None)

\* ------------------------------------------------------------ clusterer
Dist2(p, q) == (p.x - q.x) * (p.x - q.x) + (p.y - q.y) * (p.y - q.y)
               + (p.z - q.z) * (p.z - q.z)

Origin == [x |-> 0, y |-> 0, z |-> 0]

\* indices of the points within eps of point i (i itself included)
region_query(coords, i) ==
    {j \in 1..Len(coords) : Dist2(coords[i], coords[j]) <= DBSCAN_EPS * DBSCAN_EPS}

is_core(coords, i) == Cardinality(region_query(coords, i)) >= DBSCAN_MIN_SAMPLES

\* the cluster grown from the members S: every point not yet labelled that
\* is within eps of a core member joins it
RECURSIVE expand_cluster(_, _, _)
expand_cluster(coords, S, labelled) ==
    LET new == {v \in 1..Len(coords) :
                    /\ v \notin S
                    /\ v \notin labelled
                    /\ \E u \in S : is_core(coords, u) /\ v \in region_query(coords, u)}
    IN  IF new = {} THEN S ELSE expand_cluster(coords, S \cup new, labelled)

\* labels_ of DBSCAN(eps, min_samples).fit(coords): -1 is noise, clusters are
\* numbered from 0 in the order of their first core point
RECURSIVE dbscan_fit(_, _, _, _)
dbscan_fit(coords, i, label_num, labels) ==
    IF i > Len(coords) THEN labels
    ELSE IF labels[i] # -1 \/ ~is_core(coords, i)
         THEN dbscan_fit(coords, i + 1, label_num, labels)
         ELSE LET members == expand_cluster(coords, {i},
                                 {j \in 1..Len(coords) : labels[j] # -1})
              IN  dbscan_fit(coords, i + 1, label_num + 1,
                             [j \in 1..Len(coords) |->
                                 IF j \in members THEN label_num ELSE labels[j]])

DBSCAN(coords) == dbscan_fit(coords, 1, 0, [j \in 1..Len(coords) |-> -1])

\* -------------------------------------------------------------- tracker
Min(S) == CHOOSE a \in S : \A b \in S : a <= b

\* f with key k set to v (a dict assignment f[k] = v)
Put(f, k, v) == [c \in DOMAIN f \cup {k} |-> IF c = k THEN v ELSE f[c]]

\* get_next_cluster_id with the scan of line 62 running one id too far
get_next_cluster_id_scan_past_max(nid, reusable, prev) ==
    IF reusable # {}
    THEN [cid |-> Min(reusable), next_cluster_id |-> nid]
    ELSE IF \E cid \in 0..MAX_CLUSTER_ID : cid \notin DOMAIN prev
         THEN [cid |-> Min({cid \in 0..MAX_CLUSTER_ID : cid \notin DOMAIN prev}),
               next_cluster_id |-> nid]
         ELSE [cid |-> nid, next_cluster_id |-> (nid + 1) % MAX_CLUSTER_ID]

\* get_next_cluster_id: the id it returns and the value it leaves in
\* next_cluster_id.  reusable and prev are the globals reusable_ids and
\* prev_centroids, which the function reads and does not change.
get_next_cluster_id(nid, reusable, prev) ==
    IF reusable # {}
    THEN [cid |-> Min(reusable), next_cluster_id |-> nid]
    ELSE IF \E cid \in 0..(MAX_CLUSTER_ID - 1) : cid \notin DOMAIN prev
         THEN [cid |-> Min({cid \in 0..(MAX_CLUSTER_ID - 1) : cid \notin DOMAIN prev}),
               next_cluster_id |-> nid]
         ELSE [cid |-> nid, next_cluster_id |-> (nid + 1) % MAX_CLUSTER_ID]

\* tree.query(c, distance_upper_bound = MAX_MATCH_DIST): the id of the
\* nearest previous centroid closer than MAX_MATCH_DIST, or None.  Equal
\* distances go to the smaller id.
tree_query(prev, c) ==
    LET near == {pid \in DOMAIN prev :
                    Dist2(prev[pid], c) < MAX_MATCH_DIST * MAX_MATCH_DIST}
    IN  IF near = {} THEN None
        ELSE CHOOSE pid \in near :
                \A q \in near :
                    \/ Dist2(prev[pid], c) < Dist2(prev[q], c)
                    \/ Dist2(prev[pid], c) = Dist2(prev[q], c) /\ pid <= q

\* match_id with the test of line 88 inverted
match_id_used_test_inverted(prev, used_ids, c) ==
    LET matched_id == tree_query(prev, c)
    IN  IF matched_id # None /\ matched_id \in used_ids THEN matched_id ELSE None

\* the id of raw cluster rc given the ids already matched in this frame:
\* lines 83-92
match_id(prev, used_ids, c) ==
    LET matched_id == tree_query(prev, c)
    IN  IF matched_id # None /\ matched_id \notin used_ids THEN matched_id ELSE None

SeqMin(s) == Min({s[i] : i \in 1..Len(s)})
SeqMax(s) == -Min({-s[i] : i \in 1..Len(s)})

\* the cluster_info entry of lines 95-122 for a cluster with centroid c and
\* id cid (velocity in mm/s; the scalar speed is left out)
info_entry(prev, cid, c, cpts) ==
    [centroid |-> c,
     velocity |-> IF cid \in DOMAIN prev
                  THEN [x |-> (c.x - prev[cid].x) * FRAME_RATE,
                        y |-> (c.y - prev[cid].y) * FRAME_RATE,
                        z |-> (c.z - prev[cid].z) * FRAME_RATE]
                  ELSE [x |-> 0, y |-> 0, z |-> 0],
     moved    |-> IF cid \in DOMAIN prev
                  THEN Dist2(c, prev[cid]) > MOVED_DIST * MOVED_DIST
                  ELSE TRUE,
     bbox     |-> [min |-> <<SeqMin([i \in 1..Len(cpts) |-> cpts[i].x]),
                             SeqMin([i \in 1..Len(cpts) |-> cpts[i].y]),
                             SeqMin([i \in 1..Len(cpts) |-> cpts[i].z])>>,
                   max |-> <<SeqMax([i \in 1..Len(cpts) |-> cpts[i].x]),
                             SeqMax([i \in 1..Len(cpts) |-> cpts[i].y]),
                             SeqMax([i \in 1..Len(cpts) |-> cpts[i].z])>>],
     count    |-> Len(cpts)]

\* the loop of lines 81-122 from raw cluster i on; st carries the locals
\* assignments, used_ids, new_centroids, cluster_info, collision_alerts and
\* the global next_cluster_id, and for the record which clusters took their
\* id from the tree query (line 89)
RECURSIVE assign_loop(_, _, _, _, _)
assign_loop(raw_clusters, prev, reusable, i, st) ==
    IF i > Len(raw_clusters) THEN st
    ELSE LET rc == raw_clusters[i]
             c == rc.centroid
             m == match_id(prev, st.used_ids, c)
             g == get_next_cluster_id(st.next_cluster_id, reusable, prev)
             cid == IF m # None THEN m ELSE g.cid
         IN  assign_loop(raw_clusters, prev, reusable, i + 1,
                [assignments     |-> Append(st.assignments, cid),
                 matched         |-> Append(st.matched, m # None),
                 used_ids        |-> IF m # None THEN st.used_ids \cup {m}
                                     ELSE st.used_ids,
                 new_centroids   |-> Put(st.new_centroids, cid, c),
                 cluster_info    |-> Put(st.cluster_info, cid,
                                         info_entry(prev, cid, c, rc.pts)),
                 collision_alerts |-> IF Dist2(c, Origin) < ALERT_DIST * ALERT_DIST
                                     THEN Append(st.collision_alerts, cid)
                                     ELSE st.collision_alerts,
                 next_cluster_id |-> IF m # None THEN st.next_cluster_id
                                     ELSE g.next_cluster_id])

\* label_points with the position of the cluster in place of its id
RECURSIVE label_points_position_as_id(_, _, _)
label_points_position_as_id(raw_clusters, assignments, i) ==
    IF i > Len(raw_clusters) THEN <<>>
    ELSE [j \in 1..Len(raw_clusters[i].pts) |->
             [x |-> raw_clusters[i].pts[j].x, y |-> raw_clusters[i].pts[j].y,
              z |-> raw_clusters[i].pts[j].z, fn |-> raw_clusters[i].pts[j].fn,
              cluster_id |-> i - 1]]
         \o label_points_position_as_id(raw_clusters, assignments, i + 1)

\* the points of the clusters with their ids, in cluster order: lines 126-131
RECURSIVE label_points(_, _, _)
label_points(raw_clusters, assignments, i) ==
    IF i > Len(raw_clusters) THEN <<>>
    ELSE [j \in 1..Len(raw_clusters[i].pts) |->
             [x |-> raw_clusters[i].pts[j].x, y |-> raw_clusters[i].pts[j].y,
              z |-> raw_clusters[i].pts[j].z, fn |-> raw_clusters[i].pts[j].fn,
              cluster_id |-> assignments[i]]]
         \o label_points(raw_clusters, assignments, i + 1)

\* freed_ids without the set difference of line 124
freed_ids_not_subtracted(prev, new_centroids) == DOMAIN prev

\* lines 123-124: the ids of the previous frame that this frame did not use
freed_ids(prev, new_centroids) == DOMAIN prev \ DOMAIN new_centroids

\* assign_stable_ids from the tracker state tr = [next_cluster_id,
\* prev_centroids, reusable_ids]: the three results and the tracker state
\* it leaves
assign_stable_ids(raw_clusters, tr) ==
    LET st == assign_loop(raw_clusters, tr.prev_centroids, tr.reusable_ids, 1,
                  [assignments |-> <<>>, matched |-> <<>>, used_ids |-> {},
                   new_centroids |-> <<>>,
                   cluster_info |-> <<>>, collision_alerts |-> <<>>,
                   next_cluster_id |-> tr.next_cluster_id])
    IN  [points       |-> label_points(raw_clusters, st.assignments, 1),
         cluster_info |-> st.cluster_info,
         alerts       |-> st.collision_alerts,
         assignments  |-> st.assignments,
         matched      |-> st.matched,
         tracker      |-> [next_cluster_id |-> st.next_cluster_id,
                           prev_centroids  |-> st.new_centroids,
                           reusable_ids    |-> freed_ids(tr.prev_centroids,
                                                         st.new_centroids)]]

\* ------------------------------------------------------- process_frame
\* the elements of the finite set of integers S in increasing order
RECURSIVE SortedSeq(_)
SortedSeq(S) == IF S = {} THEN <<>> ELSE <<Min(S)>> \o SortedSeq(S \ {Min(S)})

RECURSIVE SumSeq(_)
SumSeq(s) == IF s = <<>> THEN 0 ELSE s[1] + SumSeq(Tail(s))

\* line 178: a point is dropped when all three coordinates are 0
is_zero_point(p) == p.x = 0 /\ p.y = 0 /\ p.z = 0

\* line 184 (USE_CONE_SHAPE is false): the spherical region of interest
in_region(p) == Dist2(p, Origin) <= CLUSTER_RADIUS * CLUSTER_RADIUS

\* lines 195-198: a raw cluster of the points cpts
raw_cluster(cpts) ==
    [pts      |-> cpts,
     centroid |-> [x |-> SumSeq([i \in 1..Len(cpts) |-> cpts[i].x]) \div Len(cpts),
                   y |-> SumSeq([i \in 1..Len(cpts) |-> cpts[i].y]) \div Len(cpts),
                   z |-> SumSeq([i \in 1..Len(cpts) |-> cpts[i].z]) \div Len(cpts)]]

\* what process_frame returns when it returns early (lines 180, 186): the
\* tracker is not called
empty_result(tr) ==
    [points |-> <<>>, cluster_info |-> <<>>, alerts |-> <<>>, tracker |-> tr,
     tracked |-> FALSE, centroids |-> <<>>, assignments |-> <<>>,
     matched |-> <<>>]

\* process_frame on the points pts_in with the tracker state tr: the message
\* parts (points, cluster_info, alerts), the tracker state afterwards, and
\* for the record whether assign_stable_ids ran, with which centroids,
\* which ids it gave them and which of them were matches
process_frame(pts_in, tr) ==
    LET pts == SelectSeq(pts_in, LAMBDA p : ~is_zero_point(p))
        target_idx == SelectSeq([i \in 1..Len(pts) |-> i],
                                LAMBDA i : in_region(pts[i]))
        cluster_targets == [i \in 1..Len(target_idx) |-> pts[target_idx[i]]]
        labels == DBSCAN(cluster_targets)
        \* clusters.setdefault(lbl, []) keeps the labels in the order of
        \* their first point; pop(-1) takes the noise out
        firsts == {i \in 1..Len(labels) :
                      labels[i] # -1 /\ \A j \in 1..(i - 1) : labels[j] # labels[i]}
        order == SortedSeq(firsts)
        members(lbl) == SelectSeq([i \in 1..Len(labels) |-> i],
                                  LAMBDA i : labels[i] = lbl)
        raw_clusters == [k \in 1..Len(order) |->
                            LET mi == members(labels[order[k]])
                            IN  raw_cluster([j \in 1..Len(mi) |-> cluster_targets[mi[j]]])]
        noise_idx == members(-1)
        r == assign_stable_ids(raw_clusters, tr)
        noise_pts == [j \in 1..Len(noise_idx) |->
                        LET p == cluster_targets[noise_idx[j]]
                        IN  [x |-> p.x, y |-> p.y, z |-> p.z, fn |-> p.fn,
                             cluster_id |-> -1]]
        \* the points of pts that are neither clustered nor noise: line 204
        clustered_ids == {target_idx[i] : i \in {j \in 1..Len(labels) : labels[j] # -1}}
        noise_ids == {target_idx[noise_idx[j]] : j \in 1..Len(noise_idx)}
        unprocessed_idx == SelectSeq([i \in 1..Len(pts) |-> i],
                                     LAMBDA i : i \notin clustered_ids /\ i \notin noise_ids)
        unprocessed_pts == [j \in 1..Len(unprocessed_idx) |-> pts[unprocessed_idx[j]]]
    IN  IF pts = <<>> THEN empty_result(tr)
        ELSE IF cluster_targets = <<>> THEN empty_result(tr)
        ELSE [points       |-> r.points \o noise_pts \o unprocessed_pts,
              cluster_info |-> r.cluster_info,
              alerts       |-> r.alerts,
              tracker      |-> r.tracker,
              tracked      |-> TRUE,
              centroids    |-> [k \in 1..Len(raw_clusters) |-> raw_clusters[k].centroid],
              assignments  |-> r.assignments,
              matched      |-> r.matched]

\* ------------------------------------------------------------ datagrams
\* the raw samples a module of a single-module datagram may carry: two
\* "no return" samples, two points outside the region of interest (900 mm),
\* a single point at 240 mm, and pairs of points at 60 mm, 180 mm and 360 mm.
\* Points 60 mm apart cluster together; centroids less than 130 mm apart
\* match.  No reachable centroid is at exactly MAX_MATCH_DIST from a previous
\* one or equally near to two previous ones within MAX_MATCH_DIST.
RawLists == {<<0, 0>>, <<15, 15>>, <<4>>, <<1, 1>>, <<3, 3>>, <<6, 6>>}
\* the raw samples a module of a chained datagram may carry
ChainRawLists == {<<4>>}
\* a non-zero next_module_size behind which the datagram has no bytes left
JunkNext == ModuleBytes(1)

\* a one-layer module of frame f with the samples raw, which declares a
\* scaling factor of 60 (mm per raw unit) and next as next_module_size
ModuleOf(f, raw, next) ==
    [size |-> ModuleBytes(Len(raw)), frame_number |-> f, num_beams |-> Len(raw),
     raw |-> raw, scaling |-> 60, next_module |-> next]

\* the run of n modules of frame f in which every module declares the size
\* of the one that follows it and the last one declares next
RECURSIVE Run(_, _, _, _)
Run(n, f, raw, next) ==
    IF n = 1
    THEN <<ModuleOf(f, raw, next)>>
    ELSE LET rest == Run(n - 1, f, raw, next)
         IN  <<ModuleOf(f, raw, rest[1].size)>> \o rest

\* the chains of n modules: a first module of any frame, followed when
\* n > 1 by a run of modules of one frame
Chains(n, raws, nexts) ==
    IF n = 1
    THEN {Run(1, f, raw, next) : f \in 1..MaxFrame, raw \in raws, next \in nexts}
    ELSE {<<ModuleOf(f, raw, ModuleBytes(Len(raw)))>> \o Run(n - 1, g, raw, next) :
             f \in 1..MaxFrame, g \in 1..MaxFrame, raw \in raws, next \in nexts}

BufferOf(marker, cmd, mods) ==
    [len |-> HEADER_SIZE + SumSeq([i \in 1..Len(mods) |-> mods[i].size]),
     marker |-> marker, cmd |-> cmd, first_size |-> mods[1].size, mods |-> mods]

\* the datagrams that decode: one module of any kind that declares itself
\* the last, one single-point module that declares a module behind it, and
\* chains of single-point modules
ValidDatagrams ==
    {BufferOf(START_MARKER, COMMAND_ID, mods) :
        mods \in Chains(1, RawLists, {0})
                 \cup Chains(1, ChainRawLists, {JunkNext})
                 \cup UNION {Chains(n, ChainRawLists, {0}) : n \in 2..MaxModules}}

\* datagrams parse_compact rejects: the start marker 0x01020202, a wrong
\* command id, shorter than the header, and a first module that does not fit
RejectedDatagrams ==
    LET mods == <<ModuleOf(1, <<4>>, 0)>>
    IN  {BufferOf(16909826, COMMAND_ID, mods),
         BufferOf(START_MARKER, 2, mods),
         [BufferOf(START_MARKER, COMMAND_ID, mods) EXCEPT !.len = HEADER_SIZE - 1],
         [BufferOf(START_MARKER, COMMAND_ID, mods) EXCEPT !.len = HEADER_SIZE + 1]}

Datagrams == ValidDatagrams \cup RejectedDatagrams

\* datagrams with a valid header and a module whose declared size is too
\* small: a first module of 16 bytes, a full module followed by one of 16
\* bytes, and a two-sample module one sample short (line 162 skips it)
ShortModuleDatagrams ==
    LET short == [ModuleOf(1, <<4>>, 0) EXCEPT !.size = 16]
        cut == [ModuleOf(1, <<1, 1>>, 0) EXCEPT !.size = ModuleBytes(1)]
    IN  {BufferOf(START_MARKER, COMMAND_ID, <<short>>),
         BufferOf(START_MARKER, COMMAND_ID, <<ModuleOf(1, <<4>>, 16), short>>),
         BufferOf(START_MARKER, COMMAND_ID, <<cut>>)}

\* the raw samples of the datagrams sent while viewers are connected
ViewerRawLists == {<<0, 0>>, <<15, 15>>, <<1, 1>>}

\* the datagrams sent while viewers are connected
ViewerDatagrams ==
    {BufferOf(START_MARKER, COMMAND_ID, mods) : mods \in Chains(1, ViewerRawLists, {0})}
    \cup RejectedDatagrams \cup ShortModuleDatagrams

\* ---------------------------------------------------------------- state
VARIABLES
    last_frame,       \* FrameProtocol.last_frame
    accum_pts,        \* FrameProtocol.accum_pts
    next_cluster_id,  \* the tracker's globals
    prev_centroids,
    reusable_ids,
    parsed_frame,     \* the frame number parse_compact returned for the last
                      \* datagram, None when it returned None
    emitted,          \* the frames the last datagram completed
    track,            \* the call of assign_stable_ids the last datagram made, if any
    msg,              \* the messages the last datagram broadcast (none or one)
    rejected,         \* whether parse_compact returned None for the last datagram
    raised,           \* whether datagram_received was left by an exception
    clients,          \* the global clients: the viewers' WebSocketResponses
    closed,           \* the viewers whose ws.closed is true
    tasks,            \* the send tasks of line 224 the event loop has not run yet
    sent,             \* the send task the last step ran, if it ran one
    failed,           \* the viewers in clients with a send that failed
    dec               \* the locals of a call of parse_compact that is followed
                      \* step by step (none in the pipeline's specifications)

\* the ghosts parsed_frame, emitted, track, msg, rejected, raised and sent
\* describe the last step only
vars == <<last_frame, accum_pts, next_cluster_id, prev_centroids, reusable_ids,
          parsed_frame, emitted, track, msg, rejected, raised, clients, closed,
          tasks, sent, failed, dec>>

\* the viewers that may connect
Viewers == {1, 2}

tracker_state ==
    [next_cluster_id |-> next_cluster_id, prev_centroids |-> prev_centroids,
     reusable_ids |-> reusable_ids]

NoTrack ==
    [tracked |-> FALSE, centroids |-> <<>>, assignments |-> <<>>, matched |-> <<>>]

InitPipeline ==
    /\ last_frame = None
    /\ accum_pts = <<>>
    /\ next_cluster_id = 0
    /\ prev_centroids = <<>>
    /\ reusable_ids = {}
    /\ parsed_frame = None
    /\ emitted = <<>>
    /\ track = NoTrack
    /\ msg = <<>>
    /\ rejected = FALSE
    /\ raised = FALSE
    /\ clients = {}
    /\ closed = {}
    /\ tasks = <<>>
    /\ sent = <<>>
    /\ failed = {}

Init == InitPipeline /\ dec = <<>>

\* the next_module_size of the last module parse_compact decodes from
\* buffer (line 149; last when it decodes none)
RECURSIVE last_next_module(_, _, _, _, _)
last_next_module(buffer, k, offset, module_size, last) ==
    IF loop_continues(buffer, k, offset, module_size)
    THEN last_next_module(buffer, k + 1, next_offset(offset, module_size),
                          buffer.mods[k].next_module, buffer.mods[k].next_module)
    ELSE last

\* the last-module flag of a datagram: its last decoded module declares
\* next_module_size = 0
last_module(buffer) ==
    last_next_module(buffer, 1, HEADER_SIZE, buffer.first_size, JunkNext) = 0

\* frame_changed with the comparison of line 219 as "greater than"
frame_changed_only_forward(frame_num, cur) == frame_num > cur

\* line 219: the datagram belongs to another frame than the current one
frame_changed(frame_num, cur) == frame_num # cur

\* lines 222-224: one send task per viewer in clients that is not closed
\* (list(clients) taken in id order)
broadcast ==
    LET open == SortedSeq(clients \ closed)
    IN  [i \in 1..Len(open) |-> [ws |-> open[i]]]

\* what a step that is not a datagram leaves in the datagram ghosts
NoDatagram ==
    /\ parsed_frame' = None
    /\ emitted' = <<>>
    /\ track' = NoTrack
    /\ msg' = <<>>
    /\ rejected' = FALSE
    /\ raised' = FALSE

\* The body of FrameProtocol.datagram_received(data); r is the value of
\* process_frame(accum_pts) on the state the datagram arrives in, which the
\* handler uses only when the frame number changes.
datagram_step(data, r) ==
    \E res \in {parse_compact(data)} :
        /\ parsed_frame' = res.frame_number
        /\ rejected' = (res = NoParse)
        /\ raised' = res.raised
        /\ sent' = <<>>
        /\ UNCHANGED <<clients, closed, failed, dec>>
        /\ IF res.frame_number = None
           THEN /\ UNCHANGED <<last_frame, accum_pts, next_cluster_id,
                               prev_centroids, reusable_ids, tasks>>
                /\ emitted' = <<>>
                /\ track' = NoTrack
                /\ msg' = <<>>
           ELSE LET cur == IF last_frame = None THEN res.frame_number ELSE last_frame
                IN  IF frame_changed(res.frame_number, cur)
                    THEN /\ Len(tasks) + Len(broadcast) <= MaxTasks
                         /\ next_cluster_id' = r.tracker.next_cluster_id
                         /\ prev_centroids' = r.tracker.prev_centroids
                         /\ reusable_ids' = r.tracker.reusable_ids
                         /\ msg' = <<[points |-> r.points,
                                      clusters |-> r.cluster_info,
                                      alerts |-> r.alerts]>>
                         /\ tasks' = tasks \o broadcast
                         /\ emitted' = <<[frame_number |-> cur, pts |-> accum_pts]>>
                         /\ track' = [tracked |-> r.tracked,
                                      centroids |-> r.centroids,
                                      assignments |-> r.assignments,
                                      matched |-> r.matched]
                         /\ accum_pts' = <<>>
                         /\ last_frame' = res.frame_number
                    ELSE /\ Len(accum_pts) + Len(res.pts) <= MaxAccum
                         /\ accum_pts' = accum_pts \o res.pts
                         /\ last_frame' = cur
                         /\ UNCHANGED <<next_cluster_id, prev_centroids,
                                        reusable_ids, tasks>>
                         /\ emitted' = <<>>
                         /\ track' = NoTrack
                         /\ msg' = <<>>

\* FrameProtocol.datagram_received(data).
datagram_received(data) ==
    datagram_step(data, process_frame(accum_pts, tracker_state))

\* One datagram arrives.  process_frame does not depend on the datagram, so
\* its value is named once per state, outside the choice of the datagram.
DatagramReceived ==
    \E r \in {process_frame(accum_pts, tracker_state)} :
        \E data \in Datagrams : datagram_step(data, r)

Next == DatagramReceived

\* the pipeline with no viewer connected
Spec == Init /\ [][Next]_vars

\* ------------------------------------------------------------- viewers
\* websocket_handler up to clients.add(ws) (lines 232-234).  A viewer's
\* name is free again when no send task refers to it.
WebsocketConnect(v) ==
    /\ v \notin clients
    /\ \A i \in 1..Len(tasks) : tasks[i].ws # v
    /\ clients' = clients \cup {v}
    /\ NoDatagram
    /\ sent' = <<>>
    /\ UNCHANGED <<last_frame, accum_pts, next_cluster_id, prev_centroids,
                   reusable_ids, closed, tasks, failed, dec>>

\* the viewer's socket closes: ws.closed becomes true while the handler is
\* still inside the loop of line 236
ViewerCloses(v) ==
    /\ v \in clients \ closed
    /\ closed' = closed \cup {v}
    /\ NoDatagram
    /\ sent' = <<>>
    /\ UNCHANGED <<last_frame, accum_pts, next_cluster_id, prev_centroids,
                   reusable_ids, clients, tasks, failed, dec>>

\* websocket_handler after the loop of line 236 has ended:
\* clients.discard(ws) (line 238)
WebsocketDisconnect(v) ==
    /\ v \in clients \cap closed
    /\ clients' = clients \ {v}
    /\ closed' = closed \ {v}
    /\ failed' = failed \ {v}
    /\ NoDatagram
    /\ sent' = <<>>
    /\ UNCHANGED <<last_frame, accum_pts, next_cluster_id, prev_centroids,
                   reusable_ids, tasks, dec>>

\* next_task when the event loop starts the newest task first
next_task_newest == Len(tasks)

\* the index in tasks of the task the event loop runs next: tasks start in
\* the order of their creation
next_task == 1

\* the event loop runs a send task (ws.send_str(msg), line 224): the message
\* is written to the viewer, or the send raises, which it does when the
\* socket is closed and may do when the connection is lost.  Nothing awaits
\* the task, so its exception goes nowhere.
SendTask(ok) ==
    /\ tasks # <<>>
    /\ LET i == next_task
           t == tasks[i]
       IN  /\ ok => t.ws \in clients \ closed
           /\ sent' = <<[ws |-> t.ws, ok |-> ok, index |-> i]>>
           /\ tasks' = [j \in 1..(Len(tasks) - 1) |->
                           IF j < i THEN tasks[j] ELSE tasks[j + 1]]
           /\ failed' = IF ~ok /\ t.ws \in clients THEN failed \cup {t.ws} ELSE failed
    /\ NoDatagram
    /\ UNCHANGED <<last_frame, accum_pts, next_cluster_id, prev_centroids,
                   reusable_ids, clients, closed, dec>>

DatagramWithViewers ==
    \E r \in {process_frame(accum_pts, tracker_state)} :
        \E data \in ViewerDatagrams : datagram_step(data, r)

NextViewers ==
    \/ DatagramWithViewers
    \/ \E v \in Viewers : WebsocketConnect(v)
    \/ \E v \in Viewers : ViewerCloses(v)
    \/ \E v \in Viewers : WebsocketDisconnect(v)
    \/ \E ok \in BOOLEAN : SendTask(ok)

\* the pipeline with viewers that connect, close and disconnect
SpecViewers == Init /\ [][NextViewers]_vars

\* ------------------------------------------------- the decoder's loop
\* the buffers parse_compact is followed on: the datagrams above, and the
\* datagrams that decode with their last byte missing
DecoderBuffers ==
    Datagrams \cup ShortModuleDatagrams
    \cup {[d EXCEPT !.len = d.len - 1] : d \in ValidDatagrams}

InitDecoder ==
    /\ InitPipeline
    /\ dec \in {<<[buffer |-> b, pc |-> "header", k |-> 1, offset |-> 0,
                    module_size |-> 0]>> : b \in DecoderBuffers}

\* a call of parse_compact touches nothing but its locals
DecoderOnly ==
    UNCHANGED <<last_frame, accum_pts, next_cluster_id, prev_centroids,
                reusable_ids, parsed_frame, emitted, track, msg, rejected,
                raised, clients, closed, tasks, sent, failed>>

\* lines 135-138: the header test, then offset = 32 and the size of the
\* first module
DecodeHeader ==
    /\ DecoderOnly
    /\ dec[1].pc = "header"
    /\ dec' = IF dec[1].buffer.len < HEADER_SIZE
                  \/ dec[1].buffer.marker # START_MARKER
                  \/ dec[1].buffer.cmd # COMMAND_ID
              THEN <<[dec[1] EXCEPT !.pc = "done"]>>
              ELSE <<[dec[1] EXCEPT !.pc = "loop", !.offset = HEADER_SIZE,
                                    !.module_size = dec[1].buffer.first_size]>>

\* one iteration of the while loop (lines 141-174): the module at offset is
\* decoded, or is too short and the call ends with an exception
DecodeModule ==
    /\ DecoderOnly
    /\ dec[1].pc = "loop"
    /\ loop_continues(dec[1].buffer, dec[1].k, dec[1].offset, dec[1].module_size)
    /\ LET m == dec[1].buffer.mods[dec[1].k]
       IN  dec' = IF module_too_short(m)
                  THEN <<[dec[1] EXCEPT !.pc = "done"]>>
                  ELSE <<[dec[1] EXCEPT
                             !.k = @ + 1,
                             !.offset = next_offset(dec[1].offset, dec[1].module_size),
                             !.module_size = m.next_module]>>

\* the loop condition fails: line 175
DecodeReturn ==
    /\ DecoderOnly
    /\ dec[1].pc = "loop"
    /\ ~loop_continues(dec[1].buffer, dec[1].k, dec[1].offset, dec[1].module_size)
    /\ dec' = <<[dec[1] EXCEPT !.pc = "done"]>>

NextDecoder ==
    \/ DecodeHeader
    \/ DecodeModule
    \/ DecodeReturn

\* one call of parse_compact, which runs on without being suspended
SpecDecoder == InitDecoder /\ [][NextDecoder]_vars /\ WF_vars(NextDecoder)

\* ================================================================ claims

\* C1 (as claimed): a decoded datagram of the current frame whose last
\* module declares next_module_size = 0 makes the assembler emit, in that
\* step, the frame of everything accumulated plus the datagram's points.
C1_EmitOnLastModule ==
    [][\A data \in Datagrams :
          (/\ parse_compact(data).frame_number # None
           /\ last_module(data)
           /\ (last_frame = None \/ parse_compact(data).frame_number = last_frame)
           /\ datagram_received(data))
          => emitted' = <<[frame_number |-> parse_compact(data).frame_number,
                           pts |-> accum_pts \o parse_compact(data).pts]>>]_vars

\* C2 (as claimed): when a decoded datagram of another frame arrives, the
\* accumulator afterwards holds exactly that datagram's points and
\* last_frame is its frame number.
C2_NoPointLossAtRollover ==
    [][\A data \in Datagrams :
          (/\ parse_compact(data).frame_number # None
           /\ last_frame # None
           /\ parse_compact(data).frame_number # last_frame
           /\ datagram_received(data))
          => (/\ accum_pts' = parse_compact(data).pts
              /\ last_frame' = parse_compact(data).frame_number)]_vars

\* C3: when the assembler holds frame N and a decoded datagram of another
\* frame arrives, that step emits exactly one frame, attributed to N, whose
\* points are the accumulator's contents before the step.
C3_MissedLastModuleRecovery ==
    [][(/\ parsed_frame' # None
        /\ last_frame # None
        /\ parsed_frame' # last_frame)
       => emitted' = <<[frame_number |-> last_frame, pts |-> accum_pts]>>]_vars

\* a frame of several points closed by a datagram of another frame
C3_Witness ==
    /\ emitted # <<>>
    /\ Len(emitted[1].pts) >= 2
    /\ parsed_frame # None
    /\ parsed_frame # emitted[1].frame_number

\* C4 (as claimed): every point of an emitted frame was decoded from a
\* module whose frame_number is the frame's.
C4_FrameHomogeneity ==
    \A i \in 1..Len(emitted) :
        \A j \in 1..Len(emitted[i].pts) :
            emitted[i].pts[j].fn = emitted[i].frame_number

\* C5 (as claimed): in a call of assign_stable_ids with at most
\* MAX_CLUSTER_ID raw clusters the ids given to the clusters are pairwise
\* distinct and cluster_info has one entry per raw cluster.
C5_UniqueIdsWithinFrame ==
    (track.tracked /\ Len(track.centroids) <= MAX_CLUSTER_ID)
    => /\ \A i, j \in 1..Len(track.assignments) :
              i # j => track.assignments[i] # track.assignments[j]
       /\ Cardinality(DOMAIN msg[1].clusters) = Len(track.centroids)

\* C6 (as claimed): in a call of assign_stable_ids every id that was in
\* prev_centroids before the call is given to at most one cluster.
C6_InjectivePreviousIds ==
    [][track'.tracked
       => \A id \in DOMAIN prev_centroids :
              Cardinality({i \in 1..Len(track'.assignments) :
                              track'.assignments[i] = id}) <= 1]_vars

\* C7: a single-cluster frame leaves that cluster's id and centroid as the
\* only track, and a single cluster arriving when there is exactly one track,
\* less than MAX_MATCH_DIST from it, gets that track's id; so consecutive
\* single-cluster frames that move less than MAX_MATCH_DIST keep one id.
C7_IdentityContinuity ==
    [][(track'.tracked /\ Len(track'.centroids) = 1)
       => /\ DOMAIN prev_centroids' = {track'.assignments[1]}
          /\ prev_centroids'[track'.assignments[1]] = track'.centroids[1]
          /\ \A id \in DOMAIN prev_centroids :
                (/\ DOMAIN prev_centroids = {id}
                 /\ Dist2(prev_centroids[id], track'.centroids[1])
                        < MAX_MATCH_DIST * MAX_MATCH_DIST)
                => track'.assignments[1] = id]_vars

\* a single cluster that kept its id after moving (120 mm)
C7_Witness ==
    /\ track.tracked
    /\ Len(track.centroids) = 1
    /\ track.assignments[1] \in DOMAIN msg[1].clusters
    /\ msg[1].clusters[track.assignments[1]].moved
    /\ msg[1].clusters[track.assignments[1]].velocity # [x |-> 0, y |-> 0, z |-> 0]

\* C8 (as claimed): after any completed frame the keys of prev_centroids
\* are the ids given to that frame's clusters, and reusable_ids is the ids
\* before the frame minus those.
C8_TrackerTransition ==
    [][emitted' # <<>>
       => /\ DOMAIN prev_centroids' = DOMAIN msg'[1].clusters
          /\ reusable_ids' = DOMAIN prev_centroids \ DOMAIN msg'[1].clusters]_vars

\* C9: reusable_ids and the live ids are disjoint and next_cluster_id is in
\* [0, MAX_CLUSTER_ID).
C9_TrackerDisjointness ==
    /\ reusable_ids \cap DOMAIN prev_centroids = {}
    /\ next_cluster_id \in 0..(MAX_CLUSTER_ID - 1)

\* a live id, a reusable id, and next_cluster_id advanced
C9_Witness ==
    /\ reusable_ids # {}
    /\ DOMAIN prev_centroids # {}
    /\ next_cluster_id = 1

\* C10: every key of prev_centroids is in [0, MAX_CLUSTER_ID), so the table
\* has at most MAX_CLUSTER_ID entries.
C10_BoundedTrackTable ==
    /\ DOMAIN prev_centroids \subseteq 0..(MAX_CLUSTER_ID - 1)
    /\ Cardinality(DOMAIN prev_centroids) <= MAX_CLUSTER_ID

\* the table is full, after a frame in which get_next_cluster_id ran with
\* every id live
C10_Witness ==
    /\ Cardinality(DOMAIN prev_centroids) = MAX_CLUSTER_ID
    /\ next_cluster_id # 0

\* C11 (as claimed): for every cluster that assign_stable_ids matches to a
\* previous id, the velocity reported under that id is (centroid - the id's
\* centroid before the frame) / FRAME_TIME_GAP_SEC, and moved is reported
\* true exactly when the displacement exceeds 0.1 m.
C11_MatchedVelocity ==
    [][track'.tracked
       => \A i \in 1..Len(track'.centroids) :
              track'.matched[i]
              => LET id == track'.assignments[i]
                     c == track'.centroids[i]
                     p == prev_centroids[id]
                     e == msg'[1].clusters[id]
                 IN  /\ e.velocity = [x |-> (c.x - p.x) * FRAME_RATE,
                                      y |-> (c.y - p.y) * FRAME_RATE,
                                      z |-> (c.z - p.z) * FRAME_RATE]
                     /\ e.moved = (Dist2(c, p) > MOVED_DIST * MOVED_DIST)]_vars

\* C12 (as claimed): every cluster that is not matched and takes its id from
\* get_next_cluster_id is reported with velocity (0,0,0) and moved = true.
C12_NewTrackZeroVelocity ==
    [][track'.tracked
       => \A i \in 1..Len(track'.centroids) :
              ~track'.matched[i]
              => LET e == msg'[1].clusters[track'.assignments[i]]
                 IN  /\ e.velocity = [x |-> 0, y |-> 0, z |-> 0]
                     /\ e.moved]_vars

\* C13 (as claimed): no datagram makes parse_compact raise; a datagram with
\* a module too small for its header fields is dropped or truncated and
\* datagram_received returns normally.
C13_DecoderFailsClosed == raised = FALSE

\* C14: a datagram shorter than 32 bytes, with a start marker other than
\* 0x02020202 or with a command id other than 1 leaves last_frame,
\* accum_pts, prev_centroids, reusable_ids, next_cluster_id and clients
\* unchanged and creates no send task.
C14_RejectedLeavesUntouched ==
    [][\A data \in ViewerDatagrams :
          (/\ (\/ data.len < HEADER_SIZE
               \/ data.marker # START_MARKER
               \/ data.cmd # COMMAND_ID)
           /\ datagram_received(data))
          => /\ UNCHANGED <<last_frame, accum_pts, prev_centroids, reusable_ids,
                            next_cluster_id, clients, tasks>>
             /\ msg' = <<>>
             /\ ~raised']_vars

\* a datagram was rejected while points were accumulated, a track was live,
\* a viewer was connected and a send task was waiting
C14_Witness ==
    /\ rejected
    /\ accum_pts # <<>>
    /\ DOMAIN prev_centroids # {}
    /\ clients # {}
    /\ tasks # <<>>

\* C15 (as claimed): a completed frame whose output point list is empty
\* creates no send task.
C15_EmptyFrameNotBroadcast ==
    [][(emitted' # <<>> /\ msg'[1].points = <<>>) => tasks' = tasks]_vars

\* C16 (as claimed): the output points without a cluster id are, one for
\* one and in order, the non-zero points of the completed frame that fail
\* the region test.
C16_UnprocessedCarriedThrough ==
    \A i \in 1..Len(emitted) :
        SelectSeq(msg[i].points, LAMBDA p : "cluster_id" \notin DOMAIN p)
        = SelectSeq(emitted[i].pts, LAMBDA p : ~is_zero_point(p) /\ ~in_region(p))

\* C17: after a frame that reached the tracker, the cluster ids carried by
\* the output points, noise (-1) and points without an id aside, are exactly
\* the keys of prev_centroids and exactly the keys of cluster_info.
C17_OutputIdsMatchTracker ==
    track.tracked
    => LET with_id == SelectSeq(msg[1].points, LAMBDA p : "cluster_id" \in DOMAIN p)
           ids == {with_id[j].cluster_id : j \in 1..Len(with_id)} \ {-1}
       IN  /\ ids = DOMAIN prev_centroids
           /\ ids = DOMAIN msg[1].clusters

\* a tracked frame with a cluster that got id 1 and a noise point
C17_Witness ==
    /\ track.tracked
    /\ 1 \in DOMAIN prev_centroids
    /\ \E j \in 1..Len(msg[1].points) :
           "cluster_id" \in DOMAIN msg[1].points[j] /\ msg[1].points[j].cluster_id = -1

C19_FailedViewersEvicted ==
    [][/\ emitted' # <<>> => \A v \in failed : v \notin clients
       /\ (sent' # <<>> /\ ~sent'[1].ok)
          => /\ ~raised'
             /\ UNCHANGED <<last_frame, accum_pts, next_cluster_id,
                            prev_centroids, reusable_ids>>
       /\ emitted' # <<>>
          => \A v \in clients \ closed :
                 \E j \in (Len(tasks) + 1)..Len(tasks') : tasks'[j].ws = v]_vars

\* C20: every iteration of the module loop of parse_compact moves the
\* offset forward by at least one byte and not past the end of the buffer,
\* and the call ends.
C20_DecoderLoopTerminates ==
    /\ [][(dec[1].pc = "loop" /\ dec'[1].pc = "loop")
          => /\ dec'[1].offset > dec[1].offset
             /\ dec'[1].offset <= dec[1].buffer.len]_vars
    /\ <>(dec[1].pc = "done")

\* a call that decoded the first of two modules and left the loop because
\* the size the first declared for the second pointed past the buffer
C20_Witness ==
    /\ dec # <<>>
    /\ dec[1].pc = "done"
    /\ dec[1].k = 2
    /\ Len(dec[1].buffer.mods) = 2
    /\ dec[1].module_size > 0
    /\ dec[1].offset + dec[1].module_size > dec[1].buffer.len

====
